---- MODULE Spec2Model ----
(***************************************************************************)
(* A model of src/main.py: one ledger account, either the standard Account *)
(* or the CreditAccount, with its balance, its credit limit and its        *)
(* operations history.  Three specifications share the module: Spec (one   *)
(* account, one caller), SpecPair (an Account and a CreditAccount of limit *)
(* 0 given the same calls) and SpecThreads (two threads calling one        *)
(* Account, statement by statement).                                       *)
(*                                                                         *)
(* Python values are records [k, v]:                                       *)
(*   [k |-> "int",   v |-> n]   the int n                                  *)
(*   [k |-> "bool",  v |-> 1]   True (a bool is an int in Python)          *)
(*   [k |-> "float", v |-> n]   the finite float n.0                       *)
(*   [k |-> "nan",   v |-> 0]   float("nan")                               *)
(*   [k |-> "inf",   v |-> 1]   float("inf");  v |-> -1 is float("-inf")   *)
(*   [k |-> "str",   v |-> 0]   a value that is no number (a str)          *)
(*   [k |-> "None",  v |-> 0]   None                                       *)
(*   [k |-> "list",  v |-> 0]   a list (its rows are in `view`)            *)
(*   [k |-> "TypeError", v |-> 0], [k |-> "ValueError", v |-> 0]           *)
(*                              the exception a call raised                *)
(* Finite floats are whole numbers, on which float arithmetic is exact.    *)
(* In a record of the history and in an Outcome, credit_used and the       *)
(* returned bool are the strings "None", "True", "False".                  *)
(***************************************************************************)
EXTENDS Integers, Sequences, FiniteSets, TLC

VARIABLES
    kind,                \* "none" before construction, "standard" | "credit"
    holder,              \* self.holder, a sequence of characters
    balance,             \* self._balance, a float
    credit_limit,        \* self.credit_limit, a float (CreditAccount only)
    operations_history,  \* self.operations_history, a sequence of Operation
    clock,               \* the last reading of datetime.now(), in ticks
    result,              \* what the last call returned or raised
    view,                \* the rows of the list in `result`; <<>> when it is no list
    initial,             \* history variable: the balance construction stored
    calls,               \* history variable: valid-amount deposit/withdraw calls
    twin,                \* SpecPair: the CreditAccount run beside the Account
    threads              \* SpecThreads: the lock and the two threads' locals

vars == <<kind, holder, balance, credit_limit, operations_history, clock,
          result, view, initial, calls, twin, threads>>

(***************************************************************************)
(* Bounds of the model.                                                    *)
(***************************************************************************)
MaxOps == 2          \* records in one history
TicksPerSec == 2     \* clock ticks in one second

(***************************************************************************)
(* Python values.                                                          *)
(***************************************************************************)
PyInt(n) == [k |-> "int", v |-> n]
PyTrue == [k |-> "bool", v |-> 1]
PyFalse == [k |-> "bool", v |-> 0]
PyNone == [k |-> "None", v |-> 0]
PyList == [k |-> "list", v |-> 0]
Exc(name) == [k |-> name, v |-> 0]
PyStr == [k |-> "str", v |-> 0]
Fin(n) == [k |-> "float", v |-> n]
NaN == [k |-> "nan", v |-> 0]
PInf == [k |-> "inf", v |-> 1]

\* isinstance(x, (int, float))
IsNumber(x) == x.k \in {"int", "bool", "float", "nan", "inf"}

\* float(x) of a number
ToFloat(x) == IF x.k \in {"int", "bool"} THEN Fin(x.v) ELSE x

\* a < b on floats: false when either is NaN
FLt(a, b) ==
    /\ a.k # "nan"
    /\ b.k # "nan"
    /\ IF a.k = "inf" THEN a.v = -1 /\ b # a
       ELSE IF b.k = "inf" THEN b.v = 1
       ELSE a.v < b.v

\* a < b, a <= b, a > b on Python numbers
Lt(a, b) == FLt(ToFloat(a), ToFloat(b))
Le(a, b) ==
    \/ Lt(a, b)
    \/ (ToFloat(a).k # "nan" /\ ToFloat(a) = ToFloat(b))
Gt(a, b) == Lt(b, a)
Ge(a, b) == Le(b, a)

\* -a
Neg(a) ==
    IF a.k = "nan" THEN NaN
    ELSE IF a.k = "inf" THEN [k |-> "inf", v |-> 0 - a.v]
    ELSE Fin(0 - ToFloat(a).v)

\* a + b on floats: inf + -inf is NaN
Add(a, b) ==
    LET x == ToFloat(a)
        y == ToFloat(b)
    IN  IF x.k = "nan" \/ y.k = "nan" THEN NaN
        ELSE IF x.k = "inf" /\ y.k = "inf" THEN (IF x.v = y.v THEN x ELSE NaN)
        ELSE IF x.k = "inf" THEN x
        ELSE IF y.k = "inf" THEN y
        ELSE Fin(x.v + y.v)

\* a - b
Sub(a, b) == Add(a, Neg(b))

(***************************************************************************)
(* Strings: a str is [k |-> "str", s |-> <<code points>>], each character  *)
(* its Unicode code point: <<32, 97, 9>> is " a\t".                        *)
(***************************************************************************)
Str(s) == [k |-> "str", s |-> s]

\* The characters str.strip() removes: those with str.isspace() true
Whitespace ==
    (9..13) \cup (28..32) \cup {133, 160, 5760} \cup (8192..8202)
        \cup {8232, 8233, 8239, 8287, 12288}

RECURSIVE LStrip(_)
LStrip(s) ==
    IF s # <<>> /\ Head(s) \in Whitespace THEN LStrip(Tail(s)) ELSE s

RECURSIVE RStrip(_)
RStrip(s) ==
    IF s # <<>> /\ s[Len(s)] \in Whitespace
    THEN RStrip(SubSeq(s, 1, Len(s) - 1))
    ELSE s

\* s.strip()
Strip(s) == RStrip(LStrip(s))

\* not isinstance(account_holder, str) or not account_holder.strip()
BadHolder(h) == h.k # "str" \/ Strip(h.s) = <<>>

(***************************************************************************)
(* The inputs the calls are tried with.                                    *)
(***************************************************************************)
Amounts == {PyInt(-1), PyInt(0), PyInt(1), PyTrue, NaN, PInf, PyStr}
Balances == {PyInt(-1), PyInt(0), PyInt(1), NaN, PInf, PyStr}
Limits == {PyInt(-1), PyInt(0), PyInt(2), NaN, PyStr}
\* The readings of datetime.now() the calls are tried at, in ticks: one
\* inside the first second and the first tick of the next second
Ticks == {1, TicksPerSec}

\* "", " ", "\t", " a ", "\ta\n" and a value that is no str
Holders ==
    {Str(<<>>), Str(<<32>>), Str(<<9>>), Str(<<32, 97, 32>>),
     Str(<<9, 97, 10>>), PyInt(0)}

\* One Operation (the frozen dataclass)
Operation(op_type, amount, timestamp, balance_after, status, credit_used) ==
    [op_type |-> op_type, amount |-> amount, timestamp |-> timestamp,
     balance_after |-> balance_after, status |-> status,
     credit_used |-> credit_used]

\* _add_operation as it would be if a rejected attempt were not recorded
add_operation_skip_fail(history, bal, now, op_type, amount, status, credit_used) ==
    IF status = "fail" THEN history
    ELSE Append(history,
                Operation(op_type, ToFloat(amount), now, ToFloat(bal), status,
                          credit_used))

\* Account._add_operation: the history with one record appended. `bal` is
\* self._balance when the method runs, `now` the reading of datetime.now().
add_operation(history, bal, now, op_type, amount, status, credit_used) ==
    Append(history,
           Operation(op_type, ToFloat(amount), now, ToFloat(bal), status,
                     credit_used))

\* _validate_amount as it would be with `amount < 0` for `amount <= 0`
validate_amount_lt(amount) ==
    IF ~IsNumber(amount) THEN [err |-> "TypeError", val |-> NaN]
    ELSE IF Lt(ToFloat(amount), Fin(0)) THEN [err |-> "ValueError", val |-> NaN]
    ELSE [err |-> "None", val |-> ToFloat(amount)]

\* Account._validate_amount: the exception raised ("None" when none is) and
\* the float returned.
validate_amount(amount) ==
    IF ~IsNumber(amount) THEN [err |-> "TypeError", val |-> NaN]
    ELSE IF Le(ToFloat(amount), Fin(0)) THEN [err |-> "ValueError", val |-> NaN]
    ELSE [err |-> "None", val |-> ToFloat(amount)]

\* Account.__init__: the exception raised, "None" when none is
account_init(account_holder, bal) ==
    IF BadHolder(account_holder) THEN "ValueError"
    ELSE IF ~IsNumber(bal) THEN "TypeError"
    ELSE IF Lt(bal, Fin(0)) THEN "ValueError"
    ELSE "None"

\* CreditAccount.__init__: the exception raised, "None" when none is
credit_init(account_holder, bal, limit) ==
    IF ~IsNumber(limit) THEN "TypeError"
    ELSE IF Lt(ToFloat(limit), Fin(0)) THEN "ValueError"
    ELSE IF ~IsNumber(bal) THEN "TypeError"
    ELSE IF Lt(ToFloat(bal), Neg(ToFloat(limit))) THEN "ValueError"
    ELSE IF BadHolder(account_holder) THEN "ValueError"
    ELSE "None"

\* What a call with a validated amount does: the value returned, the new
\* balance, and the status and credit_used of the record it appends.
Outcome(ret, bal, status, credit_used) ==
    [ret |-> ret, balance |-> bal, status |-> status,
     credit_used |-> credit_used]

\* Account.deposit, after validation
account_deposit(bal, amount) ==
    Outcome("True", Add(bal, amount), "success", "None")

\* Account.withdraw as it would be with `amount >= self._balance`
account_withdraw_ge(bal, amount) ==
    IF Ge(amount, bal) THEN Outcome("False", bal, "fail", "None")
    ELSE Outcome("True", Sub(bal, amount), "success", "None")

\* Account.withdraw, after validation
account_withdraw(bal, amount) ==
    IF Gt(amount, bal) THEN Outcome("False", bal, "fail", "None")
    ELSE Outcome("True", Sub(bal, amount), "success", "None")

\* CreditAccount.deposit as it would be without `credit_used=False` in its
\* call of _add_operation
credit_deposit_unset(bal, amount) ==
    Outcome("True", Add(bal, amount), "success", "None")

\* CreditAccount.deposit as it would be if it took credit_used from the sign
\* of the new balance, as withdraw does
credit_deposit_by_sign(bal, amount) ==
    Outcome("True", Add(bal, amount), "success",
            IF FLt(Add(bal, amount), Fin(0)) THEN "True" ELSE "False")

\* CreditAccount.deposit, after validation
credit_deposit(bal, amount) ==
    Outcome("True", Add(bal, amount), "success", "False")

\* str(b) of a bool
BoolStr(b) == IF b THEN "True" ELSE "False"

\* CreditAccount.withdraw as it would be if the rejected attempt took its
\* credit_used from new_balance
credit_withdraw_flag_new(bal, limit, amount) ==
    LET new_balance == Sub(bal, amount)
    IN  IF Lt(new_balance, Neg(limit))
        THEN Outcome("False", bal, "fail", BoolStr(Lt(new_balance, Fin(0))))
        ELSE LET was_credit_used_before == Lt(bal, Fin(0))
             IN  Outcome("True", new_balance, "success",
                         BoolStr(was_credit_used_before
                                 \/ Lt(new_balance, Fin(0))))

\* CreditAccount.withdraw, after validation
credit_withdraw(bal, limit, amount) ==
    LET new_balance == Sub(bal, amount)
    IN  IF Lt(new_balance, Neg(limit))
        THEN Outcome("False", bal, "fail", BoolStr(Lt(bal, Fin(0))))
        ELSE LET was_credit_used_before == Lt(bal, Fin(0))
             IN  Outcome("True", new_balance, "success",
                         BoolStr(was_credit_used_before
                                 \/ Lt(new_balance, Fin(0))))

\* Account.get_balance
get_balance(bal) == ToFloat(bal)

\* CreditAccount.get_available_credit
get_available_credit(bal, limit) == ToFloat(Add(bal, limit))

\* op.timestamp.isoformat(sep=" ", timespec="seconds"): the text of a time
\* stamp names its second and drops the rest
FormatTs(t) == t \div TicksPerSec

\* get_history as it would be if each row were put in front of the list
get_history_reversed(history) ==
    [i \in 1..Len(history) |->
        [history[Len(history) + 1 - i] EXCEPT
            !.timestamp = FormatTs(history[Len(history) + 1 - i].timestamp)]]

\* Account.get_history: a new list of one row per record
get_history(history) ==
    [i \in 1..Len(history) |->
        [history[i] EXCEPT !.timestamp = FormatTs(history[i].timestamp)]]

(***************************************************************************)
(* The state machine.                                                      *)
(***************************************************************************)
\* SpecPair's second account before it is constructed
NoTwin ==
    [kind |-> "none", balance |-> Fin(0), credit_limit |-> Fin(0),
     operations_history |-> <<>>, result |-> PyNone,
     pending |-> [op_type |-> "none", amount |-> Fin(0)]]

\* The locals of a thread that is in no call
Idle ==
    [pc |-> "idle", op_type |-> "none", amount |-> Fin(0), tmp |-> Fin(0),
     own |-> Fin(0), now |-> 0, seen |-> Fin(0), status |-> "none"]

\* SpecThreads before the threads are started
NoThreads ==
    [locking |-> FALSE, lock |-> 0, mismatch |-> FALSE, local |-> <<Idle, Idle>>]

Init ==
    /\ kind = "none"
    /\ holder = <<>>
    /\ balance = Fin(0)
    /\ credit_limit = Fin(0)
    /\ operations_history = <<>>
    /\ clock = 0
    /\ result = PyNone
    /\ view = <<>>
    /\ initial = Fin(0)
    /\ calls = 0
    /\ twin = NoTwin
    /\ threads = NoThreads

\* A step of the one account of Spec: no twin and no threads
Solo == UNCHANGED <<twin, threads>>

\* Account(account_holder, bal)
AccountInit(account_holder, bal) ==
    /\ kind = "none"
    /\ LET err == account_init(account_holder, bal)
       IN  IF err # "None"
           THEN /\ result' = Exc(err)
                /\ UNCHANGED <<kind, holder, balance, initial>>
           ELSE /\ result' = PyNone
                /\ kind' = "standard"
                /\ holder' = Strip(account_holder.s)
                /\ balance' = ToFloat(bal)
                /\ initial' = ToFloat(bal)
    /\ view' = <<>>
    /\ UNCHANGED <<credit_limit, operations_history, clock, calls>>

\* CreditAccount(account_holder, bal, limit)
CreditAccountInit(account_holder, bal, limit) ==
    /\ kind = "none"
    /\ LET err == credit_init(account_holder, bal, limit)
       IN  IF err # "None"
           THEN /\ result' = Exc(err)
                /\ UNCHANGED <<kind, holder, balance, credit_limit, initial>>
           ELSE /\ result' = PyNone
                /\ kind' = "credit"
                /\ holder' = Strip(account_holder.s)
                /\ balance' = ToFloat(bal)
                /\ credit_limit' = ToFloat(limit)
                /\ initial' = ToFloat(bal)
    /\ view' = <<>>
    /\ UNCHANGED <<operations_history, clock, calls>>

\* A call that raises `err` from _validate_amount
Raise(err) ==
    /\ result' = Exc(err)
    /\ view' = <<>>
    /\ UNCHANGED <<kind, holder, balance, credit_limit, operations_history,
                   clock, initial, calls>>

\* The readings datetime.now() can give at the next call that reads it: it
\* is the wall clock, which may stand still, skip ticks, or be set back
\* (a correction of the clock, the end of daylight saving time), so a reading
\* can be before the last one
Nows == Ticks

\* The call as it would be if the record were appended before the balance
\* is written
Apply_record_first(op_type, amount, out) ==
    /\ Len(operations_history) < MaxOps
    /\ calls' = calls + 1
    /\ balance' = out.balance
    /\ \E now \in Nows :
           /\ operations_history' =
                  add_operation(operations_history, balance, now, op_type,
                                amount, out.status, out.credit_used)
           /\ clock' = now
    /\ result' = IF out.ret = "True" THEN PyTrue ELSE PyFalse
    /\ view' = <<>>
    /\ UNCHANGED <<kind, holder, credit_limit, initial>>

\* A call that got past _validate_amount: the balance is written, then
\* _add_operation appends the record and the call returns
Apply(op_type, amount, out) ==
    /\ Len(operations_history) < MaxOps
    /\ calls' = calls + 1
    /\ balance' = out.balance
    /\ \E now \in Nows :
           /\ operations_history' =
                  add_operation(operations_history, out.balance, now, op_type,
                                amount, out.status, out.credit_used)
           /\ clock' = now
    /\ result' = IF out.ret = "True" THEN PyTrue ELSE PyFalse
    /\ view' = <<>>
    /\ UNCHANGED <<kind, holder, credit_limit, initial>>

\* Account.deposit(amount)
AccountDeposit(amount) ==
    /\ kind = "standard"
    /\ LET r == validate_amount(amount)
       IN  IF r.err # "None" THEN Raise(r.err)
           ELSE Apply("deposit", r.val, account_deposit(balance, r.val))

\* Account.withdraw(amount)
AccountWithdraw(amount) ==
    /\ kind = "standard"
    /\ LET r == validate_amount(amount)
       IN  IF r.err # "None" THEN Raise(r.err)
           ELSE Apply("withdraw", r.val, account_withdraw(balance, r.val))

\* CreditAccount.deposit(amount)
CreditDeposit(amount) ==
    /\ kind = "credit"
    /\ LET r == validate_amount(amount)
       IN  IF r.err # "None" THEN Raise(r.err)
           ELSE Apply("deposit", r.val, credit_deposit(balance, r.val))

\* CreditAccount.withdraw(amount)
CreditWithdraw(amount) ==
    /\ kind = "credit"
    /\ LET r == validate_amount(amount)
       IN  IF r.err # "None" THEN Raise(r.err)
           ELSE Apply("withdraw", r.val,
                      credit_withdraw(balance, credit_limit, r.val))

\* account.get_balance()
GetBalance ==
    /\ kind # "none"
    /\ result' = get_balance(balance)
    /\ view' = <<>>
    /\ UNCHANGED <<kind, holder, balance, credit_limit, operations_history,
                   clock, initial, calls>>

\* account.get_available_credit()
GetAvailableCredit ==
    /\ kind = "credit"
    /\ result' = get_available_credit(balance, credit_limit)
    /\ view' = <<>>
    /\ UNCHANGED <<kind, holder, balance, credit_limit, operations_history,
                   clock, initial, calls>>

\* account.get_history()
GetHistory ==
    /\ kind # "none"
    /\ view' = get_history(operations_history)
    /\ result' = PyList
    /\ UNCHANGED <<kind, holder, balance, credit_limit, operations_history,
                   clock, initial, calls>>

Next ==
    \/ \E h \in Holders, b \in Balances : AccountInit(h, b) /\ Solo
    \/ \E h \in Holders, b \in Balances, l \in Limits :
           CreditAccountInit(h, b, l) /\ Solo
    \/ \E a \in Amounts : AccountDeposit(a) /\ Solo
    \/ \E a \in Amounts : AccountWithdraw(a) /\ Solo
    \/ \E a \in Amounts : CreditDeposit(a) /\ Solo
    \/ \E a \in Amounts : CreditWithdraw(a) /\ Solo
    \/ GetBalance /\ Solo
    \/ GetAvailableCredit /\ Solo
    \/ GetHistory /\ Solo

Spec == Init /\ [][Next]_vars

(***************************************************************************)
(* SpecPair: an Account in the variables above and, in `twin`, a           *)
(* CreditAccount of credit_limit 0 constructed from the same arguments.    *)
(* Every deposit and withdraw is called on the Account and then, as a step *)
(* of its own with its own reading of the clock, on the CreditAccount;     *)
(* twin.pending is the call the CreditAccount has still to be given.       *)
(***************************************************************************)
\* CreditAccount(account_holder, bal, 0), as the twin
TwinInit(account_holder, bal) ==
    LET err == credit_init(account_holder, bal, PyInt(0))
    IN  IF err # "None" THEN [NoTwin EXCEPT !.result = Exc(err)]
        ELSE [NoTwin EXCEPT !.kind = "credit",
                            !.balance = ToFloat(bal),
                            !.credit_limit = ToFloat(PyInt(0))]

\* CreditAccount.deposit(amount) / CreditAccount.withdraw(amount) on twin t
TwinCall(t, op_type, amount, now) ==
    LET r == validate_amount(amount)
        out == IF op_type = "deposit" THEN credit_deposit(t.balance, r.val)
               ELSE credit_withdraw(t.balance, t.credit_limit, r.val)
    IN  IF r.err # "None" THEN [t EXCEPT !.result = Exc(r.err)]
        ELSE [t EXCEPT
                 !.balance = out.balance,
                 !.operations_history =
                     add_operation(@, out.balance, now, op_type, r.val,
                                   out.status, out.credit_used),
                 !.result = IF out.ret = "True" THEN PyTrue ELSE PyFalse]

\* Account(h, b) and CreditAccount(h, b, 0)
PairInit(account_holder, bal) ==
    /\ twin.kind = "none"
    /\ AccountInit(account_holder, bal)
    /\ twin' = TwinInit(account_holder, bal)
    /\ UNCHANGED threads

\* No call is waiting to be made on the CreditAccount
InStep == twin.pending.op_type = "none"

\* deposit(amount) on the Account; the CreditAccount is to be given the same
PairDeposit(amount) ==
    /\ twin.kind = "credit"
    /\ InStep
    /\ AccountDeposit(amount)
    /\ twin' = [twin EXCEPT
                   !.pending = [op_type |-> "deposit", amount |-> amount]]
    /\ UNCHANGED threads

\* withdraw(amount) on the Account; the CreditAccount is to be given the same
PairWithdraw(amount) ==
    /\ twin.kind = "credit"
    /\ InStep
    /\ AccountWithdraw(amount)
    /\ twin' = [twin EXCEPT
                   !.pending = [op_type |-> "withdraw", amount |-> amount]]
    /\ UNCHANGED threads

\* The pending deposit or withdraw on the CreditAccount: it reads the clock
\* itself when it appends its record
PairTwinCall(now) ==
    /\ ~InStep
    /\ twin' = [TwinCall(twin, twin.pending.op_type, twin.pending.amount, now)
                   EXCEPT !.pending = NoTwin.pending]
    /\ clock' = IF validate_amount(twin.pending.amount).err = "None"
                THEN now ELSE clock
    /\ UNCHANGED <<kind, holder, balance, credit_limit, operations_history,
                   result, view, initial, calls, threads>>

\* get_balance() on both accounts
PairGetBalance ==
    /\ twin.kind = "credit"
    /\ InStep
    /\ GetBalance
    /\ twin' = [twin EXCEPT !.result = get_balance(twin.balance)]
    /\ UNCHANGED threads

NextPair ==
    \/ \E h \in Holders, b \in Balances : PairInit(h, b)
    \/ \E a \in Amounts : PairDeposit(a)
    \/ \E a \in Amounts : PairWithdraw(a)
    \/ \E now \in Nows : PairTwinCall(now)
    \/ PairGetBalance

SpecPair == Init /\ [][NextPair]_vars

(***************************************************************************)
(* SpecThreads: two threads call deposit and withdraw of one Account.  A   *)
(* call is run statement by statement: `self._balance += amount` as its    *)
(* read and its write, and _add_operation as its reading of the clock, its *)
(* read of self._balance and its append, so the threads interleave between *)
(* any two of them.  With threads.locking the whole call is one critical   *)
(* section of a lock on the account; without it the code runs as written.  *)
(***************************************************************************)
Threads == {1, 2}

\* The calls that have begun and not yet returned
InFlight == {t \in Threads : threads.local[t].pc # "idle"}

\* Account(h, b), then the two threads are started
ThreadsStart(account_holder, bal, locking) ==
    /\ AccountInit(account_holder, bal)
    /\ threads' = IF account_init(account_holder, bal) = "None"
                  THEN [NoThreads EXCEPT !.locking = locking]
                  ELSE threads
    /\ UNCHANGED twin

\* Thread t enters deposit(amount) or withdraw(amount): _validate_amount,
\* and in withdraw the test `amount > self._balance`
ThreadCall(t, op_type, amount) ==
    /\ kind = "standard"
    /\ threads.local[t].pc = "idle"
    /\ Len(operations_history) + Cardinality(InFlight) < MaxOps
    /\ threads.locking => threads.lock = 0
    /\ LET r == validate_amount(amount)
           fail == /\ op_type = "withdraw"
                   /\ account_withdraw(balance, r.val).status = "fail"
       IN  IF r.err # "None" THEN Raise(r.err) /\ UNCHANGED threads
           ELSE /\ threads' =
                       [threads EXCEPT
                           !.lock = IF threads.locking THEN t ELSE 0,
                           !.local[t] =
                               [pc |-> IF fail THEN "now" ELSE "load",
                                op_type |-> op_type,
                                amount |-> r.val,
                                tmp |-> Fin(0),
                                own |-> IF fail THEN balance ELSE Fin(0),
                                now |-> 0,
                                seen |-> Fin(0),
                                status |-> IF fail THEN "fail" ELSE "success"]]
                /\ UNCHANGED <<kind, holder, balance, credit_limit,
                               operations_history, clock, result, view,
                               initial, calls>>
    /\ UNCHANGED twin

\* Thread t reads self._balance for `self._balance += amount` or `-= amount`
ThreadLoad(t) ==
    /\ threads.local[t].pc = "load"
    /\ threads' = [threads EXCEPT !.local[t].tmp = balance,
                                  !.local[t].pc = "store"]
    /\ UNCHANGED <<kind, holder, balance, credit_limit, operations_history,
                   clock, result, view, initial, calls, twin>>

\* Thread t writes self._balance: the value it read, plus or minus amount
ThreadStore(t) ==
    /\ threads.local[t].pc = "store"
    /\ LET l == threads.local[t]
           new == IF l.op_type = "deposit"
                  THEN account_deposit(l.tmp, l.amount).balance
                  ELSE Sub(l.tmp, l.amount)
       IN  /\ balance' = new
           /\ threads' = [threads EXCEPT !.local[t].own = new,
                                         !.local[t].pc = "now"]
    /\ UNCHANGED <<kind, holder, credit_limit, operations_history, clock,
                   result, view, initial, calls, twin>>

\* Thread t, in _add_operation, reads datetime.now() for the record
ThreadNow(t, now) ==
    /\ threads.local[t].pc = "now"
    /\ threads' = [threads EXCEPT !.local[t].now = now,
                                  !.local[t].pc = "read"]
    /\ clock' = now
    /\ UNCHANGED <<kind, holder, balance, credit_limit, operations_history,
                   result, view, initial, calls, twin>>

\* Thread t, in _add_operation, reads self._balance for balance_after
ThreadRead(t) ==
    /\ threads.local[t].pc = "read"
    /\ threads' = [threads EXCEPT !.local[t].seen = balance,
                                  !.local[t].pc = "append"]
    /\ UNCHANGED <<kind, holder, balance, credit_limit, operations_history,
                   clock, result, view, initial, calls, twin>>

\* Thread t, in _add_operation, appends the record it built, and the call
\* returns
ThreadAppend(t) ==
    /\ threads.local[t].pc = "append"
    /\ LET l == threads.local[t]
       IN  /\ operations_history' =
                  add_operation(operations_history, l.seen, l.now, l.op_type,
                                l.amount, l.status, "None")
           /\ result' = IF l.status = "success" THEN PyTrue ELSE PyFalse
           /\ threads' = [threads EXCEPT
                             !.mismatch = @ \/ l.seen # l.own,
                             !.lock = 0,
                             !.local[t] = Idle]
    /\ calls' = calls + 1
    /\ UNCHANGED <<kind, holder, balance, credit_limit, clock, view, initial,
                   twin>>

NextThreads ==
    \/ \E h \in Holders, b \in Balances, locking \in BOOLEAN :
           ThreadsStart(h, b, locking)
    \/ \E t \in Threads, op_type \in {"deposit", "withdraw"}, a \in Amounts :
           ThreadCall(t, op_type, a)
    \/ \E t \in Threads : ThreadLoad(t)
    \/ \E t \in Threads : ThreadStore(t)
    \/ \E t \in Threads, now \in Nows : ThreadNow(t, now)
    \/ \E t \in Threads : ThreadRead(t)
    \/ \E t \in Threads : ThreadAppend(t)

SpecThreads == Init /\ [][NextThreads]_vars

(***************************************************************************)
(* Notions the properties below are stated with.                           *)
(***************************************************************************)
Zero == Fin(0)

\* An amount the properties call valid: a number greater than 0
Positive(a) == IsNumber(a) /\ Gt(a, Zero)

\* An amount the properties call invalid: no number, or a number <= 0
Rejected(a) == ~IsNumber(a) \/ Le(a, Zero)

IsError(r) == r.k \in {"TypeError", "ValueError"}

\* s is a prefix of t / a strict prefix of t
IsPrefix(s, t) == Len(s) <= Len(t) /\ SubSeq(t, 1, Len(s)) = s
StrictPrefix(s, t) == IsPrefix(s, t) /\ Len(s) < Len(t)

\* The step appended exactly one record, with these fields and the new
\* balance as its balance_after, and left the older records as they were
AppendedOne(op_type, amount, status) ==
    /\ Len(operations_history') = Len(operations_history) + 1
    /\ IsPrefix(operations_history, operations_history')
    /\ LET rec == operations_history'[Len(operations_history')]
       IN  /\ rec.op_type = op_type
           /\ rec.amount = ToFloat(amount)
           /\ rec.status = status
           /\ rec.balance_after = balance'

\* The step changed nothing of the account
AccountUnchanged ==
    UNCHANGED <<kind, holder, balance, credit_limit, operations_history>>

\* The sum of the amounts of the records of `h` with this type and status
RECURSIVE SumOf(_, _, _)
SumOf(h, op_type, status) ==
    IF h = <<>> THEN Zero
    ELSE LET rest == SumOf(Tail(h), op_type, status)
         IN  IF Head(h).op_type = op_type /\ Head(h).status = status
             THEN Add(Head(h).amount, rest)
             ELSE rest

HasRecord(op_type, status) ==
    \E i \in 1..Len(operations_history) :
        /\ operations_history[i].op_type = op_type
        /\ operations_history[i].status = status

(***************************************************************************)
(* C1: the balance of a standard Account is >= 0 in every reachable state. *)
(* The code takes float("nan") for an amount (and for an initial balance): *)
(* it is a float and not <= 0 (not < 0), and the balance it leaves is NaN, *)
(* which is not >= 0.                                                      *)
(***************************************************************************)
C1_StandardBalanceNonNegative ==
    kind = "standard" => Ge(balance, Zero)

(***************************************************************************)
(* C2: the balance of a CreditAccount with credit limit L is >= -L in      *)
(* every reachable state. A NaN amount, balance or limit gets past the     *)
(* checks of the code and breaks it.                                       *)
(***************************************************************************)
C2_CreditBalanceAboveFloor ==
    kind = "credit" => Ge(balance, Neg(credit_limit))

(***************************************************************************)
(* C3: ledger conservation: the balance minus the initial balance equals   *)
(* the sum of the successful deposits minus the sum of the successful      *)
(* withdrawals. An account built with the balance float("inf"), which the  *)
(* constructors accept, breaks it: inf - inf is NaN.                       *)
(***************************************************************************)
C3_LedgerConservation ==
    kind # "none" =>
        Sub(balance, initial) =
            Sub(SumOf(operations_history, "deposit", "success"),
                SumOf(operations_history, "withdraw", "success"))

(***************************************************************************)
(* C4: Account.withdraw(w) with w > 0: if w > balance, the balance stays,  *)
(* a withdraw record with status fail is appended and the call returns     *)
(* False; otherwise the balance becomes balance - w, a withdraw record     *)
(* with status success is appended and the call returns True.              *)
(***************************************************************************)
C4_StandardWithdraw ==
    [][\A w \in Amounts :
        (Positive(w) /\ AccountWithdraw(w)) =>
            IF Gt(w, balance)
            THEN /\ balance' = balance
                 /\ AppendedOne("withdraw", w, "fail")
                 /\ result' = PyFalse
            ELSE /\ balance' = Sub(balance, w)
                 /\ AppendedOne("withdraw", w, "success")
                 /\ result' = PyTrue]_vars

C4_Witness ==
    /\ kind = "standard"
    /\ HasRecord("withdraw", "fail")
    /\ HasRecord("withdraw", "success")

(***************************************************************************)
(* C5: CreditAccount.withdraw(w) with w > 0 succeeds (returns True, the    *)
(* balance becomes balance - w, a success record is appended) if and only  *)
(* if balance - w >= -creditLimit; otherwise it returns False, leaves the  *)
(* balance and appends a fail record. The code rejects when                *)
(* balance - w < -creditLimit, which is not the same once the balance or   *)
(* the limit is NaN.                                                       *)
(***************************************************************************)
C5_CreditWithdraw ==
    [][\A w \in Amounts :
        (Positive(w) /\ CreditWithdraw(w)) =>
            IF Ge(Sub(balance, w), Neg(credit_limit))
            THEN /\ balance' = Sub(balance, w)
                 /\ AppendedOne("withdraw", w, "success")
                 /\ result' = PyTrue
            ELSE /\ balance' = balance
                 /\ AppendedOne("withdraw", w, "fail")
                 /\ result' = PyFalse]_vars

(***************************************************************************)
(* C6: the credit_used of the record CreditAccount.withdraw appends is, on *)
(* success, (balance before < 0) or (balance after < 0), and on rejection  *)
(* (balance before < 0); a success that starts and ends at or above zero   *)
(* and a rejection from a balance >= 0 both record False.                  *)
(***************************************************************************)
C6_CreditUsedFlag ==
    [][\A w \in Amounts :
        (Positive(w) /\ CreditWithdraw(w)) =>
            LET rec == operations_history'[Len(operations_history')]
            IN  /\ Len(operations_history') = Len(operations_history) + 1
                /\ rec.status = "success" =>
                       rec.credit_used =
                           BoolStr(Lt(balance, Zero) \/ Lt(balance', Zero))
                /\ rec.status = "fail" =>
                       rec.credit_used = BoolStr(Lt(balance, Zero))
                /\ (/\ rec.status = "success"
                    /\ Ge(balance, Zero)
                    /\ Ge(balance', Zero)) => rec.credit_used = "False"
                /\ (rec.status = "fail" /\ Ge(balance, Zero)) =>
                       rec.credit_used = "False"]_vars

C6_Witness ==
    /\ kind = "credit"
    /\ Len(operations_history) = 2
    /\ operations_history[1].op_type = "withdraw"
    /\ operations_history[1].status = "success"
    /\ operations_history[1].credit_used = "True"
    /\ operations_history[2].op_type = "withdraw"
    /\ operations_history[2].status = "fail"
    /\ operations_history[2].credit_used = "True"

(***************************************************************************)
(* C7: for both variants deposit(d) with d > 0 never fails: the balance    *)
(* becomes balance + d, exactly one record (deposit, amount d, status      *)
(* success, balance_after the new balance) is appended, and the call       *)
(* returns True.                                                           *)
(***************************************************************************)
C7_Deposit ==
    [][\A d \in Amounts :
        (Positive(d) /\ (AccountDeposit(d) \/ CreditDeposit(d))) =>
            /\ balance' = Add(balance, d)
            /\ AppendedOne("deposit", d, "success")
            /\ result' = PyTrue]_vars

C7_Witness ==
    /\ kind = "credit"
    /\ result = PyTrue
    /\ Len(operations_history) = 2
    /\ operations_history[2].op_type = "deposit"
    /\ operations_history[2].amount = Fin(1)
    /\ balance = Zero

(***************************************************************************)
(* C8: for both variants a deposit or withdraw call whose amount is no     *)
(* number or is <= 0 raises an error and leaves the account as it was: the *)
(* same balance and the same history.  Stated as: a step raises and        *)
(* changes nothing, or it is no call with such an amount.                  *)
(***************************************************************************)
C8_RejectedAmount ==
    [][\/ /\ IsError(result')
          /\ AccountUnchanged
       \/ \A a \in Amounts :
              ~(/\ Rejected(a)
                /\ \/ AccountDeposit(a)
                   \/ AccountWithdraw(a)
                   \/ CreditDeposit(a)
                   \/ CreditWithdraw(a))]_vars

C8_Witness ==
    /\ IsError(result)
    /\ kind # "none"
    /\ Len(operations_history) = 1

(***************************************************************************)
(* C9: every deposit or withdraw call with a valid amount appends exactly  *)
(* one record; it returns True if and only if that record's status is      *)
(* success, and a call that returns False is recorded with status fail; so *)
(* the length of the history is the number of valid-amount calls so far.   *)
(* Stated as: a step appends one record and returns the matching bool, or  *)
(* it is no call with a valid amount.                                      *)
(***************************************************************************)
C9_OneRecordPerCall ==
    [][/\ calls' = Len(operations_history')
       /\ \/ LET rec == operations_history'[Len(operations_history')]
             IN  /\ Len(operations_history') = Len(operations_history) + 1
                 /\ IsPrefix(operations_history, operations_history')
                 /\ result' \in {PyTrue, PyFalse}
                 /\ result' = PyTrue <=> rec.status = "success"
                 /\ result' = PyFalse <=> rec.status = "fail"
          \/ \A a \in Amounts :
                 ~(/\ ~Rejected(a)
                   /\ \/ AccountDeposit(a)
                      \/ AccountWithdraw(a)
                      \/ CreditDeposit(a)
                      \/ CreditWithdraw(a))]_vars

C9_Witness ==
    /\ calls = 2
    /\ result = PyFalse
    /\ operations_history[1].status = "success"
    /\ operations_history[2].status = "fail"

(***************************************************************************)
(* C10: get_history changes neither the balance nor the history; two calls *)
(* with no operation between them return the same rows; and after one more *)
(* valid deposit or withdraw the rows returned before are a strict prefix  *)
(* of the rows returned now.                                               *)
(***************************************************************************)
C10_GetHistory ==
    [][/\ GetHistory =>
            /\ AccountUnchanged
            /\ result = PyList => view' = view
            /\ Len(view') = Len(operations_history)
       /\ Len(operations_history') # Len(operations_history) =>
            /\ StrictPrefix(get_history(operations_history),
                            get_history(operations_history'))
            /\ get_history(operations_history) # <<>> =>
                   get_history(operations_history')[1] =
                       get_history(operations_history)[1]]_vars

C10_Witness ==
    /\ result = PyList
    /\ Len(view) = 2
    /\ view[1].timestamp # view[2].timestamp
    /\ view[1].status = "fail"

(***************************************************************************)
(* The four properties above that NaN and infinite values break, on the    *)
(* runs in which every number the account has taken is real: the initial   *)
(* balance, the credit limit and the amount of every record.               *)
(***************************************************************************)
IsReal(x) == ToFloat(x).k = "float"

RealRun ==
    /\ IsReal(initial)
    /\ IsReal(credit_limit)
    /\ \A i \in 1..Len(operations_history) : IsReal(operations_history[i].amount)

\* C1 on real runs
RealRun_StandardBalanceNonNegative ==
    RealRun => C1_StandardBalanceNonNegative

\* C2 on real runs
RealRun_CreditBalanceAboveFloor ==
    RealRun => C2_CreditBalanceAboveFloor

\* C3 on real runs
RealRun_LedgerConservation ==
    RealRun => C3_LedgerConservation

\* C5 on real runs and real amounts
RealRun_CreditWithdraw ==
    [][\A w \in Amounts :
        (RealRun /\ IsReal(w) /\ Positive(w) /\ CreditWithdraw(w)) =>
            IF Ge(Sub(balance, w), Neg(credit_limit))
            THEN /\ balance' = Sub(balance, w)
                 /\ AppendedOne("withdraw", w, "success")
                 /\ result' = PyTrue
            ELSE /\ balance' = balance
                 /\ AppendedOne("withdraw", w, "fail")
                 /\ result' = PyFalse]_vars

(***************************************************************************)
(* C11: every record of a standard Account has credit_used None, and every *)
(* record of a CreditAccount has credit_used True or False.                *)
(***************************************************************************)
C11_CreditUsedByVariant ==
    \A i \in 1..Len(operations_history) :
        /\ kind = "standard" => operations_history[i].credit_used = "None"
        /\ kind = "credit" =>
               operations_history[i].credit_used \in {"True", "False"}

C11_Witness ==
    /\ kind = "credit"
    /\ Len(operations_history) = 2
    /\ operations_history[1].op_type = "withdraw"
    /\ operations_history[1].credit_used = "True"
    /\ operations_history[2].op_type = "deposit"
    /\ operations_history[2].credit_used = "False"

(***************************************************************************)
(* C12: every record CreditAccount.deposit appends has credit_used False,  *)
(* also when the balance before the deposit is negative and when the       *)
(* balance after it is still negative.                                     *)
(***************************************************************************)
C12_CreditDepositFlag ==
    [][\A d \in Amounts :
        (~Rejected(d) /\ CreditDeposit(d)) =>
            /\ Len(operations_history') = Len(operations_history) + 1
            /\ operations_history'[Len(operations_history')].op_type = "deposit"
            /\ operations_history'[Len(operations_history')].credit_used
                   = "False"]_vars

C12_Witness ==
    /\ kind = "credit"
    /\ Len(operations_history) = 2
    /\ Lt(operations_history[1].balance_after, Zero)
    /\ operations_history[2].op_type = "deposit"
    /\ operations_history[2].credit_used = "False"
    /\ Lt(operations_history[2].balance_after, Zero)

(***************************************************************************)
(* C13: Account(holder, balance) succeeds exactly when holder is text that *)
(* is not blank and balance is a number >= 0; on success the account has   *)
(* that balance and an empty history, on failure an error is raised and no *)
(* account exists.                                                         *)
(***************************************************************************)
C13_AccountInit ==
    [][\A h \in Holders, b \in Balances :
        AccountInit(h, b) =>
            IF ~BadHolder(h) /\ IsNumber(b) /\ Ge(b, Zero)
            THEN /\ ~IsError(result')
                 /\ kind' = "standard"
                 /\ balance' = ToFloat(b)
                 /\ operations_history' = <<>>
            ELSE /\ IsError(result')
                 /\ kind' = "none"]_vars

\* C13 on the balances that are real numbers or not numbers at all
RealRun_AccountInit ==
    [][\A h \in Holders, b \in Balances :
        ((IsNumber(b) => IsReal(b)) /\ AccountInit(h, b)) =>
            IF ~BadHolder(h) /\ IsNumber(b) /\ Ge(b, Zero)
            THEN /\ ~IsError(result')
                 /\ kind' = "standard"
                 /\ balance' = ToFloat(b)
                 /\ operations_history' = <<>>
            ELSE /\ IsError(result')
                 /\ kind' = "none"]_vars

(***************************************************************************)
(* C14: CreditAccount(holder, balance, credit_limit) succeeds exactly when *)
(* credit_limit is a number >= 0, balance is a number >= -credit_limit and *)
(* holder is not blank, so a negative balance down to -credit_limit is     *)
(* accepted; on success the history is empty.                              *)
(***************************************************************************)
C14_CreditAccountInit ==
    [][\A h \in Holders, b \in Balances, l \in Limits :
        CreditAccountInit(h, b, l) =>
            IF /\ IsNumber(l) /\ Ge(l, Zero)
               /\ IsNumber(b) /\ Ge(b, Neg(l))
               /\ ~BadHolder(h)
            THEN /\ ~IsError(result')
                 /\ kind' = "credit"
                 /\ balance' = ToFloat(b)
                 /\ credit_limit' = ToFloat(l)
                 /\ operations_history' = <<>>
            ELSE /\ IsError(result')
                 /\ kind' = "none"]_vars

\* C14 on the balances and limits that are real numbers or not numbers
RealRun_CreditAccountInit ==
    [][\A h \in Holders, b \in Balances, l \in Limits :
        (/\ IsNumber(b) => IsReal(b)
         /\ IsNumber(l) => IsReal(l)
         /\ CreditAccountInit(h, b, l)) =>
            IF /\ IsNumber(l) /\ Ge(l, Zero)
               /\ IsNumber(b) /\ Ge(b, Neg(l))
               /\ ~BadHolder(h)
            THEN /\ ~IsError(result')
                 /\ kind' = "credit"
                 /\ balance' = ToFloat(b)
                 /\ credit_limit' = ToFloat(l)
                 /\ operations_history' = <<>>
            ELSE /\ IsError(result')
                 /\ kind' = "none"]_vars

\* a negative initial balance within the limit is accepted
RealRun_NegativeInitialAccepted ==
    /\ kind = "credit"
    /\ calls = 0
    /\ Lt(balance, Zero)
    /\ Ge(balance, Neg(credit_limit))
    /\ operations_history = <<>>

\* a == b on Python numbers: false when either is NaN
FEq(a, b) == ToFloat(a).k # "nan" /\ ToFloat(a) = ToFloat(b)

(***************************************************************************)
(* C15: the boundaries.  Account.withdraw of exactly the balance, when the *)
(* balance is > 0, succeeds and leaves the balance 0.  CreditAccount       *)
(* withdraw succeeds when balance - amount = -credit_limit and is rejected *)
(* when balance - amount = -credit_limit - 1.                              *)
(***************************************************************************)
C15_Boundaries ==
    [][\A w \in Amounts :
        /\ (/\ IsNumber(w) /\ FEq(w, balance) /\ Gt(balance, Zero)
            /\ AccountWithdraw(w)) =>
               /\ result' = PyTrue
               /\ balance' = Zero
               /\ AppendedOne("withdraw", w, "success")
        /\ (/\ Positive(w) /\ FEq(Sub(balance, w), Neg(credit_limit))
            /\ CreditWithdraw(w)) =>
               /\ result' = PyTrue
               /\ balance' = Neg(credit_limit)
               /\ AppendedOne("withdraw", w, "success")
        /\ (/\ Positive(w)
            /\ FEq(Sub(balance, w), Sub(Neg(credit_limit), PyInt(1)))
            /\ CreditWithdraw(w)) =>
               /\ result' = PyFalse
               /\ balance' = balance
               /\ AppendedOne("withdraw", w, "fail")]_vars

\* C15 on real runs and real amounts
RealRun_Boundaries ==
    [][\A w \in Amounts :
        (RealRun /\ IsNumber(w) /\ IsReal(w)) =>
        /\ (/\ FEq(w, balance) /\ Gt(balance, Zero)
            /\ AccountWithdraw(w)) =>
               /\ result' = PyTrue
               /\ balance' = Zero
               /\ AppendedOne("withdraw", w, "success")
        /\ (/\ Positive(w) /\ FEq(Sub(balance, w), Neg(credit_limit))
            /\ CreditWithdraw(w)) =>
               /\ result' = PyTrue
               /\ balance' = Neg(credit_limit)
               /\ AppendedOne("withdraw", w, "success")
        /\ (/\ Positive(w)
            /\ FEq(Sub(balance, w), Sub(Neg(credit_limit), PyInt(1)))
            /\ CreditWithdraw(w)) =>
               /\ result' = PyFalse
               /\ balance' = balance
               /\ AppendedOne("withdraw", w, "fail")]_vars

\* the three boundary cases happen on real runs
RealRun_BoundaryStandard ==
    /\ kind = "standard" /\ RealRun
    /\ Gt(initial, Zero)
    /\ Len(operations_history) = 1
    /\ operations_history[1].op_type = "withdraw"
    /\ operations_history[1].amount = initial
    /\ balance = Zero

RealRun_BoundaryCreditAtLimit ==
    /\ kind = "credit" /\ RealRun
    /\ Gt(credit_limit, Zero)
    /\ Len(operations_history) = 1
    /\ operations_history[1].op_type = "withdraw"
    /\ operations_history[1].status = "success"
    /\ balance = Neg(credit_limit)

RealRun_BoundaryCreditPastLimit ==
    /\ kind = "credit" /\ RealRun
    /\ Len(operations_history) = 1
    /\ operations_history[1].op_type = "withdraw"
    /\ operations_history[1].status = "fail"
    /\ Sub(balance, operations_history[1].amount)
           = Sub(Neg(credit_limit), PyInt(1))

(***************************************************************************)
(* C16: when the history is not empty, the balance_after of its last       *)
(* record is the current balance; the balance_after of every fail record   *)
(* is the balance before the rejected call: the balance_after of the       *)
(* record before it, or the initial balance when it is the first.          *)
(***************************************************************************)
C16_BalanceAfter ==
    /\ operations_history # <<>> =>
           operations_history[Len(operations_history)].balance_after = balance
    /\ \A i \in 1..Len(operations_history) :
           operations_history[i].status = "fail" =>
               operations_history[i].balance_after =
                   IF i = 1 THEN initial
                   ELSE operations_history[i - 1].balance_after

C16_Witness ==
    /\ Len(operations_history) = 2
    /\ operations_history[1].status = "success"
    /\ operations_history[1].balance_after # initial
    /\ operations_history[2].status = "fail"
    /\ operations_history[2].balance_after = balance

(***************************************************************************)
(* C18: every withdraw record of a CreditAccount, success or fail, has     *)
(* credit_used = (balance_after < 0).                                      *)
(***************************************************************************)
C18_WithdrawFlagIsSign ==
    kind = "credit" =>
        \A i \in 1..Len(operations_history) :
            operations_history[i].op_type = "withdraw" =>
                (operations_history[i].credit_used = "True"
                     <=> Lt(operations_history[i].balance_after, Zero))

\* C18 on real runs
RealRun_WithdrawFlagIsSign ==
    RealRun => C18_WithdrawFlagIsSign

\* real runs record withdrawals with both flags and both statuses
RealRun_WithdrawFlagWitness ==
    /\ kind = "credit" /\ RealRun
    /\ Len(operations_history) = 2
    /\ operations_history[1].op_type = "withdraw"
    /\ operations_history[1].status = "success"
    /\ operations_history[1].credit_used = "True"
    /\ operations_history[2].op_type = "withdraw"
    /\ operations_history[2].status = "fail"
    /\ operations_history[2].credit_used = "True"

(***************************************************************************)
(* C20: on a CreditAccount get_available_credit() returns                  *)
(* balance + credit_limit, which is >= 0, and changes neither the balance  *)
(* nor the history; deposit and withdraw never change credit_limit.        *)
(***************************************************************************)
C20_AvailableCredit ==
    [][/\ GetAvailableCredit =>
              /\ result' = Add(balance, credit_limit)
              /\ Ge(result', Zero)
              /\ AccountUnchanged
       /\ \A a \in Amounts :
              (CreditDeposit(a) \/ CreditWithdraw(a)) =>
                  credit_limit' = credit_limit]_vars

\* C20 on real runs
RealRun_AvailableCredit ==
    [][/\ (RealRun /\ GetAvailableCredit) =>
              /\ result' = Add(balance, credit_limit)
              /\ Ge(result', Zero)
              /\ AccountUnchanged
       /\ \A a \in Amounts :
              (CreditDeposit(a) \/ CreditWithdraw(a)) =>
                  credit_limit' = credit_limit]_vars

\* C20 without the sign of the result, on every run
AvailableCreditIsPureRead ==
    [][GetAvailableCredit =>
           /\ result' = Add(balance, credit_limit)
           /\ AccountUnchanged]_vars

(***************************************************************************)
(* C19: a CreditAccount with credit_limit 0 and an Account, constructed    *)
(* with the same initial balance >= 0 and given the same calls, stay in    *)
(* lockstep: after every call made on both, the call returned (or raised)  *)
(* the same, the balances are equal, and the histories are equal record by *)
(* record in op_type, amount, balance_after and status, with credit_used   *)
(* always False on the CreditAccount and None on the Account.              *)
(***************************************************************************)
C19_Lockstep ==
    ((kind = "standard" \/ twin.kind = "credit") /\ InStep) =>
        /\ kind = "standard" /\ twin.kind = "credit"
        /\ twin.result = result
        /\ twin.balance = balance
        /\ Len(twin.operations_history) = Len(operations_history)
        /\ \A i \in 1..Len(operations_history) :
               LET a == operations_history[i]
                   c == twin.operations_history[i]
               IN  /\ c.op_type = a.op_type
                   /\ c.amount = a.amount
                   /\ c.balance_after = a.balance_after
                   /\ c.status = a.status
                   /\ a.credit_used = "None"
                   /\ c.credit_used = "False"

C19_Witness ==
    /\ kind = "standard" /\ twin.kind = "credit" /\ InStep
    /\ Gt(initial, Zero)
    /\ Len(twin.operations_history) = 2
    /\ twin.operations_history[1].op_type = "withdraw"
    /\ twin.operations_history[1].status = "success"
    /\ twin.operations_history[1].balance_after = Zero
    /\ twin.operations_history[2].op_type = "withdraw"
    /\ twin.operations_history[2].status = "fail"
    /\ twin.operations_history[2].timestamp
           # operations_history[2].timestamp
    /\ result = PyFalse

(***************************************************************************)
(* C17, under SpecThreads.  A state is bad when a record's balance_after   *)
(* is not the balance its own call produced, or the balance is not >= 0,   *)
(* or, with no call in flight, the ledger is not conserved.                *)
(***************************************************************************)
Quiescent == InFlight = {}

BadState ==
    /\ kind = "standard"
    /\ \/ threads.mismatch
       \/ ~Ge(balance, Zero)
       \/ Quiescent /\ ~C3_LedgerConservation

\* Every amount in the history or in a call in flight is a real number
RealThreads ==
    /\ RealRun
    /\ \A t \in Threads : IsReal(threads.local[t].amount)

\* C17: when two deposit/withdraw calls interleave with no critical section
\* a bad state is reachable; when every call is one critical section of a
\* lock on the account, no bad state is reachable.
C17_Serialized ==
    threads.locking => ~BadState

\* C17 on real runs: with the lock, no bad state
RealRun_Serialized ==
    (threads.locking /\ RealThreads) => ~BadState

\* C17 on real runs: without the lock each kind of bad state is reached
RealRun_RaceMismatch ==
    /\ ~threads.locking /\ RealThreads
    /\ kind = "standard" /\ threads.mismatch

RealRun_RaceOverdraft ==
    /\ ~threads.locking /\ RealThreads
    /\ kind = "standard" /\ Lt(balance, Zero)

\* Without the lock a thread that read self._balance for its record and was
\* then overtaken appends a stale record after the other thread's: the
\* history has balance_after 2, then 1, and, the other thread's reading of
\* the clock being the later one, the time stamps descend
RealRun_RaceStaleRecord ==
    /\ ~threads.locking /\ RealThreads /\ Quiescent
    /\ kind = "standard" /\ balance = Fin(2)
    /\ Len(operations_history) = 2
    /\ operations_history[1].balance_after = Fin(2)
    /\ operations_history[2].balance_after = Fin(1)
    /\ operations_history[1].timestamp > operations_history[2].timestamp

\* One caller, the wall clock set back between two calls: the later record
\* carries the earlier time stamp
ClockSetBack ==
    /\ Len(operations_history) = 2
    /\ operations_history[1].timestamp > operations_history[2].timestamp

RealRun_RaceLostUpdate ==
    /\ ~threads.locking /\ RealThreads
    /\ kind = "standard" /\ Quiescent /\ ~C3_LedgerConservation

\* with the lock, two calls do run one after the other
RealRun_SerializedWitness ==
    /\ threads.locking /\ RealThreads
    /\ Len(operations_history) = 2
    /\ operations_history[1].status = "success"
    /\ operations_history[2].status = "success"
    /\ Quiescent

====
